---- MODULE Spec2Model ----
(***************************************************************************)
(* Pairing-based Pedersen commitment script (src/pedersen.py).             *)
(*                                                                         *)
(* The script is a straight-line program: trusted setup (lines 23, 27),    *)
(* commitment (lines 32-35), four prints (lines 38-45), three pairings     *)
(* (lines 77-87), the right-hand side (line 92) and the verdict (lines     *)
(* 95-98).  Each statement is one action, ordered by the program counter.  *)
(* The script takes no argument and defines no function: its only inputs   *)
(* are the three integers bound at lines 15-19.                            *)
(*                                                                         *)
(* The curve library py_ecc.bn128 is imported, not part of the repository. *)
(* Its groups G1, G2 and GT are cyclic of the same prime order curve_order *)
(* (a 254-bit prime).  A point is represented by its discrete logarithm    *)
(* with respect to the generator of its group, a GT element by its         *)
(* logarithm with respect to e(G2, G1).                                    *)
(*                                                                         *)
(* A scalar is the Python integer q * curve_order + t, written Sc(q, t),   *)
(* with t far below curve_order.  curve_order itself is never reduced to a *)
(* small number: every logarithm the model computes is a sum of products   *)
(* of t components, at most MaxScalar * MaxScalar + MaxScalar, so it is    *)
(* the exact logarithm the library's arithmetic yields, and reduction      *)
(* modulo curve_order only drops the q component of a scalar.              *)
(*                                                                         *)
(* The repository pins no version of py_ecc.  Releases differ in double(): *)
(* some return the point at infinity unchanged, others unpack it and raise *)
(* TypeError.  Which one is installed is fixed for a run and unknown to    *)
(* the script: double_guarded is chosen freely in the initial state.       *)
(***************************************************************************)
EXTENDS Integers, Sequences, FiniteSets

VARIABLES pc, a, b_value, s, g1_s, h1_s, commitment,
          out, left, e_h1s_G1, e_G2_G1, right, double_guarded

vars == <<pc, a, b_value, s, g1_s, h1_s, commitment,
          out, left, e_h1s_G1, e_G2_G1, right, double_guarded>>

(* ------------------------------ bounds -------------------------------- *)

\* The t component of a scalar ranges over 0..MaxScalar (a=2, b=3, s=4 fit).
MaxScalar == 4

\* The q component of a scalar ranges over 0..MaxWrap: scalars at or above
\* curve_order are inputs too.
MaxWrap == 1

(* ------------------------------ scalars ------------------------------- *)

\* The integer q * curve_order + t.
Sc(q, t) == [q |-> q, t |-> t]

Scalars == {Sc(q, t) : q \in 0..MaxWrap, t \in 0..MaxScalar}

\* n % curve_order.
ModOrder(n) == n.t

(* --------------------- py_ecc.bn128 (imported) ------------------------ *)

\* Curve parameters: b selects the curve over FQ (G1), b2 the twist over FQ2 (G2).
b == "G1"

b2 == "G2"

\* A value not computed yet (the Python name is not bound).
Unset == [kind |-> "unset", grp |-> "none", k |-> 0]

\* The point at infinity (Python None); it belongs to no particular group.
None == [kind |-> "point", grp |-> "inf", k |-> 0]

\* The point n * generator of group g, 0 < n < curve_order.
Pt(g, n) == [kind |-> "point", grp |-> g, k |-> n]

\* The fixed generators.
G1 == Pt("G1", 1)

G2 == Pt("G2", 1)

\* The point with logarithm n (0 <= n < curve_order); 0 is the point at infinity.
FromLog(g, n) == IF n = 0 THEN None ELSE Pt(g, n)

is_inf(pt) == pt = None

\* A Python bool.
BoolVal(x) == [kind |-> "bool", grp |-> "none", k |-> IF x THEN 1 ELSE 0]

\* An exception raised inside the library (an assertion, a TypeError).
Raised == [kind |-> "raised", grp |-> "none", k |-> 0]

\* Every multiple of a generator satisfies the equation of its own curve;
\* comparing the coordinates of one field with the parameter of the other
\* raises.
is_on_curve(pt, bb) ==
    IF is_inf(pt) \/ pt.grp = bb THEN BoolVal(TRUE) ELSE Raised

\* Point doubling; on the point at infinity it returns it (guarded
\* releases) or raises TypeError on unpacking None.
double(pt) ==
    IF is_inf(pt) THEN (IF double_guarded THEN pt ELSE Raised)
    ELSE FromLog(pt.grp, 2 * pt.k)

\* Point addition of two points of the same group.
add(p1, p2) ==
    IF is_inf(p1) \/ is_inf(p2) THEN (IF is_inf(p2) THEN p1 ELSE p2)
    ELSE FromLog(p1.grp, p1.k + p2.k)

\* Scalar multiplication by double-and-add: 0 gives the point at infinity,
\* 1 the point itself, any other n first doubles pt; the result is
\* (n % curve_order) * pt, curve_order * pt being the point at infinity.
multiply(pt, n) ==
    IF n = Sc(0, 0) THEN None
    ELSE IF n = Sc(0, 1) THEN pt
    ELSE IF double(pt) = Raised THEN Raised
    ELSE IF is_inf(pt) THEN None
    ELSE FromLog(pt.grp, pt.k * ModOrder(n))

\* GT elements as exponents of e(G2, G1).
GT(n) == [kind |-> "GT", grp |-> "GT", k |-> n]

\* FQ12.one().
GTOne == GT(0)

\* pairing(Q, P): asserts both memberships, then the Miller loop, which
\* returns one when either point is the point at infinity.
pairing(Q, P) ==
    IF is_on_curve(Q, b2) # BoolVal(TRUE) \/ is_on_curve(P, b) # BoolVal(TRUE)
        THEN Raised
    ELSE IF is_inf(Q) \/ is_inf(P) THEN GTOne
    ELSE GT(Q.k * P.k)

\* FQ12 multiplication.
GTMul(x, y) == GT(x.k + y.k)

\* FQ12 exponentiation: x ** n = x ** (n % curve_order), GT having that order.
GTPow(x, n) == GT(x.k * ModOrder(n))

(* ------------------------- src/pedersen.py ---------------------------- *)

\* Values as they appear on standard output.
ScalarVal(n) == [kind |-> "scalar", grp |-> "none", k |-> n.t, q |-> n.q]

NoVal == [kind |-> "text", grp |-> "none", k |-> 0]

Line(l, v) == [label |-> l, val |-> v]

\* print(l, v): the argument is evaluated first; an exception raised while
\* evaluating it leaves nothing printed.
PrintOf(l, v) == IF v = Raised THEN Raised ELSE Line(l, v)

\* Fault: the G2 parameter is derived from a different scalar than the G1 one.
Setup_h1_s_off(sc) == multiply(G2, Sc(sc.q, sc.t + 1))

\* Lines 23 and 27: the public parameters of the trusted setup.
Setup_g1_s(sc) == multiply(G1, sc)

Setup_h1_s(sc) == multiply(G2, sc)

\* Lines 32-35: commitment = a * g1_s + b_value * G1; an exception in
\* either multiply leaves add uncalled.
Commitment(x, y, pG1) ==
    IF multiply(pG1, x) = Raised \/ multiply(G1, y) = Raised THEN Raised
    ELSE add(multiply(pG1, x), multiply(G1, y))

\* Fault: the secret scalar is printed in place of the commitment.
PrintCommitment_leak == Line("Commitment:", ScalarVal(a))

\* Lines 38-45: the four printed lines.
PrintG2 == PrintOf("G2:", G2)

PrintCommitment == PrintOf("Commitment:", commitment)

PrintG2Valid == PrintOf("G2 valid:", is_on_curve(G2, b2))

PrintCommitmentValid == PrintOf("Commitment valid:", is_on_curve(commitment, b))

\* Fault: the cross term is computed as e(G2, paramG1).
CrossTerm_variant(pG2) == pairing(G2, g1_s)

\* Lines 77, 82, 87: the three pairings of the verifier.
Left(c) == pairing(G2, c)

CrossTerm(pG2) == pairing(pG2, G1)

BaseTerm == pairing(G2, G1)

\* Faults: the base term is dropped; the two exponents are exchanged.
Right_noBase(cross, base, x, y) == GTPow(cross, x)

Right_swapped(cross, base, x, y) == GTMul(GTPow(cross, y), GTPow(base, x))

\* Line 92: right = (e_h1s_G1 ** a) * (e_G2_G1 ** b_value).
Right(cross, base, x, y) == GTMul(GTPow(cross, x), GTPow(base, y))

\* Lines 95-98: the verdict line.
VerdictLine(l, r) ==
    IF l = r THEN Line("Verification successful: left == right", NoVal)
    ELSE Line("Verification failed: left != right", NoVal)

\* The statement that follows each statement of the script.
NextPc(p) ==
    CASE p = "L23" -> "L27"
      [] p = "L27" -> "L32"
      [] p = "L32" -> "L38"
      [] p = "L38" -> "L39"
      [] p = "L39" -> "L42"
      [] p = "L42" -> "L45"
      [] p = "L45" -> "L77"
      [] p = "L77" -> "L82"
      [] p = "L82" -> "L87"
      [] p = "L87" -> "L92"
      [] p = "L92" -> "L95"
      [] p = "L95" -> "done"

\* Lines 15-19: the script binds a, b_value and s, nothing else.
Init ==
    /\ pc = "L23"
    /\ a \in Scalars
    /\ b_value \in Scalars
    /\ s \in Scalars
    /\ g1_s = Unset
    /\ h1_s = Unset
    /\ commitment = Unset
    /\ out = << >>
    /\ left = Unset
    /\ e_h1s_G1 = Unset
    /\ e_G2_G1 = Unset
    /\ right = Unset
    /\ double_guarded \in BOOLEAN

\* Line 23: g1_s = multiply(G1, s).
StepSetupG1 ==
    /\ pc = "L23"
    /\ g1_s' = Setup_g1_s(s)
    /\ pc' = NextPc(pc)
    /\ UNCHANGED <<double_guarded, a, b_value, s, h1_s, commitment, out,
                   left, e_h1s_G1, e_G2_G1, right>>

\* Line 27: h1_s = multiply(G2, s).
StepSetupG2 ==
    /\ pc = "L27"
    /\ h1_s' = Setup_h1_s(s)
    /\ pc' = NextPc(pc)
    /\ UNCHANGED <<double_guarded, a, b_value, s, g1_s, commitment, out,
                   left, e_h1s_G1, e_G2_G1, right>>

\* Lines 32-35; an exception ends the script with commitment unbound.
StepCommit ==
    /\ pc = "L32"
    /\ IF Commitment(a, b_value, g1_s) = Raised
         THEN pc' = "raised" /\ UNCHANGED commitment
         ELSE pc' = NextPc(pc) /\ commitment' = Commitment(a, b_value, g1_s)
    /\ UNCHANGED <<double_guarded, a, b_value, s, g1_s, h1_s, out,
                   left, e_h1s_G1, e_G2_G1, right>>

\* A print statement appends one line to standard output; when evaluating
\* its argument raises, nothing is printed and the script ends.
Emit(p, line) ==
    /\ pc = p
    /\ IF line = Raised
         THEN pc' = "raised" /\ UNCHANGED out
         ELSE pc' = NextPc(pc) /\ out' = Append(out, line)
    /\ UNCHANGED <<double_guarded, a, b_value, s, g1_s, h1_s, commitment,
                   left, e_h1s_G1, e_G2_G1, right>>

\* Line 38.
StepPrintG2 == Emit("L38", PrintG2)

\* Line 39.
StepPrintCommitment == Emit("L39", PrintCommitment)

\* Line 42.
StepPrintG2Valid == Emit("L42", PrintG2Valid)

\* Line 45: the membership flag is printed; the script does not branch on
\* it.  An exception inside is_on_curve ends the script at this line.
StepPrintCommitmentValid == Emit("L45", PrintCommitmentValid)

\* Line 77: left = pairing(G2, commitment); an assertion failure inside the
\* library ends the script with the name left unbound.
StepLeft ==
    /\ pc = "L77"
    /\ IF Left(commitment) = Raised
         THEN pc' = "raised" /\ UNCHANGED left
         ELSE pc' = NextPc(pc) /\ left' = Left(commitment)
    /\ UNCHANGED <<double_guarded, a, b_value, s, g1_s, h1_s, commitment,
                   out, e_h1s_G1, e_G2_G1, right>>

\* Line 82: e_h1s_G1 = pairing(h1_s, G1).
StepCross ==
    /\ pc = "L82"
    /\ IF CrossTerm(h1_s) = Raised
         THEN pc' = "raised" /\ UNCHANGED e_h1s_G1
         ELSE pc' = NextPc(pc) /\ e_h1s_G1' = CrossTerm(h1_s)
    /\ UNCHANGED <<double_guarded, a, b_value, s, g1_s, h1_s, commitment,
                   out, left, e_G2_G1, right>>

\* Line 87: e_G2_G1 = pairing(G2, G1).
StepBase ==
    /\ pc = "L87"
    /\ IF BaseTerm = Raised
         THEN pc' = "raised" /\ UNCHANGED e_G2_G1
         ELSE pc' = NextPc(pc) /\ e_G2_G1' = BaseTerm
    /\ UNCHANGED <<double_guarded, a, b_value, s, g1_s, h1_s, commitment,
                   out, left, e_h1s_G1, right>>

\* Line 92: the verifier reads a and b_value, the names the commitment was
\* built from.
StepRight ==
    /\ pc = "L92"
    /\ right' = Right(e_h1s_G1, e_G2_G1, a, b_value)
    /\ pc' = NextPc(pc)
    /\ UNCHANGED <<double_guarded, a, b_value, s, g1_s, h1_s, commitment,
                   out, left, e_h1s_G1, e_G2_G1>>

\* Lines 95-98.
StepVerdict == Emit("L95", VerdictLine(left, right))

Next ==
    \/ StepSetupG1
    \/ StepSetupG2
    \/ StepCommit
    \/ StepPrintG2
    \/ StepPrintCommitment
    \/ StepPrintG2Valid
    \/ StepPrintCommitmentValid
    \/ StepLeft
    \/ StepCross
    \/ StepBase
    \/ StepRight
    \/ StepVerdict

Spec == Init /\ [][Next]_vars

(* ----------------------------- claims --------------------------------- *)
(* The script verifies the pair it committed to.  A claim about another    *)
(* claimed pair or another G2 parameter is stated on the values a run has  *)
(* computed (left, e_h1s_G1, e_G2_G1, g1_s), by applying the expressions   *)
(* of lines 82, 92 and 95 to that pair or parameter.                       *)

Printed == {out[i] : i \in 1..Len(out)}

Labels == {out[i].label : i \in 1..Len(out)}

Accepted == "Verification successful: left == right" \in Labels
Rejected == "Verification failed: left != right" \in Labels

FailedLine == Line("Verification failed: left != right", NoVal)

\* Line 92 and the comparison of line 95 for the claimed pair (x, y).
Accepts(x, y) == left = Right(e_h1s_G1, e_G2_G1, x, y)

\* The same with the cross term taken from the G2 parameter sc * G2.
AcceptsUnder(sc, x, y) ==
    left = Right(CrossTerm(Setup_h1_s(sc)), e_G2_G1, x, y)

\* The same with the cross term computed as e(G2, paramG1).
VariantAccepts(x, y) == left = Right(pairing(G2, g1_s), e_G2_G1, x, y)

\* (x * sc + y) % curve_order, exact since the t components are small.
LinMod(x, sc, y) == ModOrder(x) * ModOrder(sc) + ModOrder(y)

\* Scalars below curve_order.
Reduced == {n \in Scalars : n.q = 0}

\* C1 (as stated): an honest run (the verifier reads the committed a and
\* b_value) never raises and ends with left == right and the line
\* "Verification successful", for every setup scalar and every pair of
\* committed scalars.
C1_HonestVerificationSucceeds ==
    /\ pc # "raised"
    /\ ~Rejected
    /\ pc = "done" => (left = right /\ Accepted)

\* C2 (as stated): with parameters from s and a commitment to (a, b), every
\* claimed pair that differs from (a, b) is rejected.  Stated here for the
\* least favourable case only: a nonzero setup scalar and scalars below the
\* group order.
C2_TamperedAlwaysFails ==
    (pc = "done" /\ {a, b_value, s} \subseteq Reduced /\ s.t # 0) =>
        \A x, y \in Reduced : (x # a \/ y # b_value) => ~Accepts(x, y)

\* C2 (amended): with parameters from s and a commitment to (a, b), every
\* claimed pair (a', b') with a'*s + b' not congruent to a*s + b modulo the
\* group order is rejected; the pair (2, 4) is rejected for a=2, b=3, s=4.
C2_IncongruentTamperFails ==
    pc = "done" =>
        /\ \A x, y \in Scalars :
              LinMod(x, s, y) # LinMod(a, s, b_value) =>
                  /\ ~Accepts(x, y)
                  /\ VerdictLine(left, Right(e_h1s_G1, e_G2_G1, x, y)) = FailedLine
        /\ (a = Sc(0, 2) /\ b_value = Sc(0, 3) /\ s = Sc(0, 4))
              => ~Accepts(Sc(0, 2), Sc(0, 4))

C2_Witness ==
    /\ pc = "done"
    /\ a = Sc(0, 2) /\ b_value = Sc(0, 3) /\ s = Sc(0, 4)
    /\ left = GT(11)
    /\ Right(e_h1s_G1, e_G2_G1, Sc(0, 2), Sc(0, 4)) = GT(12)
    /\ ~Accepts(Sc(0, 2), Sc(0, 4))

\* C3 (as stated): a setup scalar of zero is rejected, so no parameter, no
\* commitment and no pairing is ever computed from s = 0.
C3_ZeroScalarRejected ==
    s = Sc(0, 0) =>
        /\ g1_s = Unset
        /\ h1_s = Unset
        /\ commitment = Unset
        /\ left = Unset
        /\ ~Accepted

\* C4 (as stated): the commitment is not handed on, neither printed for the
\* verifier (line 39) nor passed to the first pairing (line 77), before its
\* G1 membership check has been made and has succeeded.
C4_UncheckedCommitmentNeverHandedOn ==
    ("Commitment:" \in Labels \/ left # Unset) =>
        Line("Commitment valid:", BoolVal(TRUE)) \in Printed

\* The points whose curve membership has been tested so far: by the script
\* (lines 42, 45) and by the assertions of the pairing calls already made.
ValidatedPoints ==
    (IF "G2 valid:" \in Labels THEN {G2} ELSE {})
        \cup (IF "Commitment valid:" \in Labels THEN {commitment} ELSE {})
        \cup (IF left # Unset THEN {G2, commitment} ELSE {})
        \cup (IF e_h1s_G1 # Unset THEN {h1_s, G1} ELSE {})
        \cup (IF e_G2_G1 # Unset THEN {G2, G1} ELSE {})

\* C5 (as stated): membership validation of every input point of the
\* verifier (paramG2, the commitment, both generators) precedes the first
\* pairing evaluation: whatever pairings exist, the pairing still to be
\* evaluated next has only validated arguments.
C5_ValidationPrecedesPairings ==
    (left # Unset /\ e_h1s_G1 = Unset) => {h1_s, G1} \subseteq ValidatedPoints

\* C7: every printed line is one of the six lines of the script and carries
\* a point, a boolean or no value; none carries the scalar s, a or b_value.
C7_NoSecretScalarPrinted ==
    \A i \in 1..Len(out) :
        /\ out[i].val.kind \in {"point", "bool", "text"}
        /\ out[i].label \in {"G2:", "Commitment:", "G2 valid:", "Commitment valid:",
                             "Verification successful: left == right",
                             "Verification failed: left != right"}

C7_Witness ==
    /\ pc = "done"
    /\ Len(out) = 5
    /\ out[2] = Line("Commitment:", Pt("G1", 11))
    /\ a = Sc(0, 2) /\ b_value = Sc(0, 3) /\ s = Sc(0, 4)

\* C8: for every nonzero setup scalar s, once both parameters exist they are
\* s * G1 and s * G2, e(G2, paramG1) equals e(paramG2, G1), and the cross
\* term the verifier computes equals e(G2, paramG1).
C8_SetupConsistency ==
    (s # Sc(0, 0) /\ h1_s # Unset) =>
        /\ g1_s = multiply(G1, s)
        /\ h1_s = multiply(G2, s)
        /\ pairing(G2, g1_s) = pairing(h1_s, G1)
        /\ pairing(h1_s, G1) = GTPow(BaseTerm, s)
        /\ e_h1s_G1 # Unset => e_h1s_G1 = pairing(G2, g1_s)

C8_Witness ==
    /\ s = Sc(0, 4)
    /\ e_h1s_G1 = GT(4)
    /\ e_h1s_G1 = pairing(G2, g1_s)

\* C9 (as stated): with inconsistent parameters (paramG1 = s * G1, paramG2 =
\* s2 * G2, s2 # s modulo the group order) an honestly built commitment with
\* a # 0 is rejected by the verifier as implemented, while the variant using
\* e(G2, paramG1) would accept it.  Stated here for a paramG1 that is not
\* the point at infinity.
C9_InconsistentRejectedForNonzeroA ==
    (pc = "done" /\ a # Sc(0, 0) /\ ModOrder(s) # 0) =>
        \A s2 \in Scalars :
            ModOrder(s2) # ModOrder(s) =>
                (~AcceptsUnder(s2, a, b_value) /\ VariantAccepts(a, b_value))

\* C9 (amended): the cross term is e(paramG2, G1); with consistent parameters
\* the verifier and the variant using e(G2, paramG1) give the same verdict for
\* every claimed pair; with inconsistent parameters an honestly built
\* commitment whose a is not a multiple of the group order is rejected by the
\* verifier as implemented and accepted by the variant.
C9_CrossGroupConsistency ==
    /\ e_h1s_G1 # Unset => e_h1s_G1 = pairing(h1_s, G1)
    /\ pc = "done" =>
        /\ \A x, y \in Scalars : Accepts(x, y) <=> VariantAccepts(x, y)
        /\ \A x, y \in Scalars : AcceptsUnder(s, x, y) <=> Accepts(x, y)
        /\ \A s2 \in Scalars :
              (ModOrder(s2) # ModOrder(s) /\ ModOrder(a) # 0) =>
                  (~AcceptsUnder(s2, a, b_value) /\ VariantAccepts(a, b_value))

C9_Witness ==
    /\ pc = "done"
    /\ a = Sc(0, 2) /\ b_value = Sc(0, 3) /\ s = Sc(0, 4)
    /\ ~AcceptsUnder(Sc(0, 3), a, b_value)
    /\ Right(CrossTerm(Setup_h1_s(Sc(0, 3))), e_G2_G1, a, b_value) = GT(9)
    /\ VariantAccepts(a, b_value)

\* C10: with parameters from s and a commitment to (a, b), the claimed pair
\* (a', b') is accepted if and only if a'*s + b' is congruent to a*s + b
\* modulo the group order; with s = 0 every claimedA is accepted together
\* with the original b.
C10_ExactAcceptance ==
    pc = "done" =>
        /\ \A x, y \in Scalars :
              Accepts(x, y) <=> (LinMod(x, s, y) = LinMod(a, s, b_value))
        /\ ModOrder(s) = 0 => \A x \in Scalars : Accepts(x, b_value)

\* A party knowing s opens the commitment to (a + 1, b - s).
C10_Witness ==
    /\ pc = "done"
    /\ a = Sc(0, 2) /\ b_value = Sc(0, 4) /\ s = Sc(0, 3)
    /\ Accepts(Sc(0, 3), Sc(0, 1))
    /\ Accepts(a, b_value)

====
